---- MODULE Spec2Model ----
(***************************************************************************)
(* The LLM service: the handlers of LLMController                          *)
(* (llm-service/controllers/llmController.ts) in front of                  *)
(* LLMService (llm-service/services/llmService.ts): provider store,        *)
(* capability catalog, the seven adapters, the fallback loop, embedding,   *)
(* the provider listing and shutdown.                                      *)
(*                                                                         *)
(* Text values (prompt, system, message content) are sequences of symbols, *)
(* so that template literals are concatenations and JavaScript truthiness  *)
(* of a string is "non-empty".  An absent (undefined) string and ''        *)
(* behave alike in every place the code reads them, and are both <<>>.     *)
(***************************************************************************)
EXTENDS Integers, Sequences, FiniteSets, TLC

VARIABLES
    env,                 \* process.env as read by the service
    providerConfigs,     \* LLMService.providerConfigs: provider -> config
    defaultProvider,     \* LLMService.defaultProvider
    body,                \* the route requested and the fields of req.body
    request,             \* the LLMRequest object handed to the service
    pc,                  \* "idle" | "await" | "done": position of the handler;
                         \* "crashed": the Node process died of an uncaught error
    frame,               \* the top-level generateCompletion activation
    inflight,            \* the adapter call being awaited
    calls,               \* adapter invocations of this request, in order
    result,              \* what the controller sent on res
    tmpFiles,            \* files in os.tmpdir() written by the direct adapter
    localModelProcesses, \* LLMService.localModelProcesses (keys)
    signalled,           \* live child processes that were sent a kill signal
    redisClient,         \* "open" | "closed": LLMService.redisClient
    pendingEvent,        \* "none" | "close": event the child process of the
                         \* request still has to deliver after its first one
    peer                 \* "none" | "spawned": the direct-adapter run of a
                         \* concurrent request

vars == << env, providerConfigs, defaultProvider, body, request, pc, frame,
           inflight, calls, result, tmpFiles, localModelProcesses, signalled,
           redisClient, pendingEvent, peer >>

----------------------------------------------------------------------------
(* Bounds *)

MaxCaps == 1        \* longest capabilities list of a request
MaxMsgs == 2        \* longest messages list of a request
MaxTaskCaps == 2    \* longest capabilities list of a getBestModelForTask call

----------------------------------------------------------------------------
(* enum LLMProvider, in declaration order *)

ProviderOrder ==
    << "openai", "anthropic", "google", "cohere", "lmstudio", "ollama", "direct" >>

LLMProvider == { ProviderOrder[i] : i \in 1..Len(ProviderOrder) }

None == "undefined"

\* position of a provider in the enum / in initProviders' registration order
Rank(p) == CHOOSE i \in 1..Len(ProviderOrder) : ProviderOrder[i] = p

\* `X_DEFAULT_MODEL || '<literal>'` of each provider
BuiltinModel ==
    [ openai |-> "gpt-4o", anthropic |-> "claude-3-opus-20240229",
      google |-> "gemini-pro", cohere |-> "command",
      lmstudio |-> "local-model", ollama |-> "llama3",
      direct |-> "llama-3-8b-q4" ]

\* a deployment that points every provider at another model
OtherModel ==
    [ openai |-> "gpt-3.5-turbo", anthropic |-> "claude-3-haiku-20240307",
      google |-> "gemini-pro-vision", cohere |-> "command",
      lmstudio |-> "mistral-7b", ollama |-> "llama-3",
      direct |-> "mistral-7b" ]

ModelProfiles == { BuiltinModel, OtherModel }

\* values of DEFAULT_LLM_PROVIDER: unset, a provider name (one also in
\* upper case), a name of no provider
Overrides == LLMProvider \cup { None, "ANTHROPIC", "bedrock" }

Envs ==
    [ keys     : SUBSET LLMProvider,     \* providers whose key/host is set
      models   : ModelProfiles,          \* the *_DEFAULT_MODEL values
      DEFAULT_LLM_PROVIDER : Overrides,
      ENABLE_LLM_FALLBACK : BOOLEAN ]    \* === 'true'

----------------------------------------------------------------------------
(* Generation parameters.  temperature and topP are counted in tenths. *)

Unset == -1                  \* the field is undefined

DefaultMaxTokens   == 4096   \* parseInt(process.env.X_MAX_TOKENS || '4096')
DefaultTemperature == 7      \* parseFloat(process.env.X_TEMPERATURE || '0.7')
DefaultTopP        == 10     \* `request.topP || 1`

\* `a || b` on numbers: undefined and 0 are falsy
Or(a, b) == IF a # Unset /\ a # 0 THEN a ELSE b

\* the usage of a backend reply (prompt/input, completion/output, total
\* counts) when the reply reports none
NoUsage == [ prompt |-> Unset, completion |-> Unset, total |-> Unset ]

----------------------------------------------------------------------------
(* initProviders *)

\* the Map built by the seven `if (process.env.X)` blocks
initProviderConfigs(e) ==
    [ p \in e.keys |-> [ modelName   |-> e.models[p],
                         maxTokens   |-> DefaultMaxTokens,
                         temperature |-> DefaultTemperature ] ]

\* Map iteration order is insertion order: registration order
ConfigOrder(configs) ==
    SelectSeq(ProviderOrder, LAMBDA p : p \in DOMAIN configs)

\* String.prototype.toLowerCase on the values of DEFAULT_LLM_PROVIDER
toLowerCase(name) == IF name = "ANTHROPIC" THEN "anthropic" ELSE name

\* variant: DEFAULT_LLM_PROVIDER is not read
initDefaultProvider_IgnoresOverride(e, configs) ==
    IF ConfigOrder(configs) # << >>
    THEN Head(ConfigOrder(configs))
    ELSE "openai"

\* lines 172-187; the field initialiser is LLMProvider.OPENAI
initDefaultProvider(e, configs) ==
    IF e.DEFAULT_LLM_PROVIDER # None
    THEN LET providerName == toLowerCase(e.DEFAULT_LLM_PROVIDER)
         IN  IF providerName \in LLMProvider /\ providerName \in DOMAIN configs
             THEN providerName
             ELSE "openai"
    ELSE IF ConfigOrder(configs) # << >>
         THEN Head(ConfigOrder(configs))
         ELSE "openai"

----------------------------------------------------------------------------
(* initModelCapabilities / hasCapability *)

modelCapabilities ==
    [ m \in { "gpt-4o", "gpt-4-turbo", "gpt-3.5-turbo", "claude-3-opus-20240229",
              "claude-3-sonnet-20240229", "claude-3-haiku-20240307",
              "gemini-pro", "gemini-pro-vision", "llama-3", "mistral-7b" } |->
        CASE m = "gpt-4o" -> { "code", "reasoning", "creative", "instruction", "vision" }
          [] m = "gpt-4-turbo" -> { "code", "reasoning", "creative", "instruction" }
          [] m = "gpt-3.5-turbo" -> { "code", "instruction", "creative" }
          [] m = "claude-3-opus-20240229" -> { "code", "reasoning", "creative", "instruction", "vision" }
          [] m = "claude-3-sonnet-20240229" -> { "code", "reasoning", "creative", "instruction", "vision" }
          [] m = "claude-3-haiku-20240307" -> { "code", "creative", "instruction", "vision" }
          [] m = "gemini-pro" -> { "code", "reasoning", "creative", "instruction" }
          [] m = "gemini-pro-vision" -> { "code", "reasoning", "creative", "instruction", "vision" }
          [] m = "llama-3" -> { "code", "reasoning", "creative", "instruction" }
          [] m = "mistral-7b" -> { "code", "instruction" } ]

hasCapability(model, capability) ==
    IF model \in DOMAIN modelCapabilities
    THEN capability \in modelCapabilities[model]
    ELSE FALSE

\* capabilities.filter(cap => modelCapabilities.has(cap)).length
MatchedCapabilities(capabilities, model) ==
    Cardinality({ i \in 1..Len(capabilities) : hasCapability(model, capabilities[i]) })

----------------------------------------------------------------------------
(* getBestModelForTask *)

\* variant: `matchedCapabilities >= maxMatchedCapabilities`, so that on
\* equal counts the provider seen last wins
RECURSIVE ScanProviders_LastWins(_, _, _)
ScanProviders_LastWins(order, capabilities, best) ==
    IF order = << >> THEN best
    ELSE LET provider == Head(order)
             model    == providerConfigs[provider].modelName
             matched  == MatchedCapabilities(capabilities, model)
             seen     == [ best EXCEPT !.evaluated = Append(@, provider) ]
         IN  IF provider = best.provider
             THEN ScanProviders_LastWins(Tail(order), capabilities, best)
             ELSE IF model \in DOMAIN modelCapabilities /\ matched >= best.max
                  THEN ScanProviders_LastWins(Tail(order), capabilities,
                          [ seen EXCEPT !.provider = provider, !.model = model,
                                        !.max = matched ])
                  ELSE ScanProviders_LastWins(Tail(order), capabilities, seen)

\* the `for (const [provider, config] of this.providerConfigs.entries())`
\* loop; best carries bestProvider, bestModel, maxMatchedCapabilities and
\* the providers whose default model was looked up in the catalog so far
RECURSIVE ScanProviders(_, _, _)
ScanProviders(order, capabilities, best) ==
    IF order = << >> THEN best
    ELSE LET provider == Head(order)
             model    == providerConfigs[provider].modelName
             matched  == MatchedCapabilities(capabilities, model)
             seen     == [ best EXCEPT !.evaluated = Append(@, provider) ]
         IN  IF provider = best.provider
             THEN ScanProviders(Tail(order), capabilities, best)
             ELSE IF model \in DOMAIN modelCapabilities /\ matched > best.max
                  THEN IF matched = Len(capabilities)
                       THEN [ seen EXCEPT !.provider = provider, !.model = model,
                                          !.max = matched ]
                       ELSE ScanProviders(Tail(order), capabilities,
                                [ seen EXCEPT !.provider = provider, !.model = model,
                                              !.max = matched ])
                  ELSE ScanProviders(Tail(order), capabilities, seen)

\* the state of the search after the "First try with preferred provider"
\* block, lines 225-242
PreferredFirst(capabilities, bestProvider) ==
    LET hasConfig  == bestProvider \in DOMAIN providerConfigs
        model      == providerConfigs[bestProvider].modelName
        catalogued == hasConfig /\ model \in DOMAIN modelCapabilities
    IN  [ provider  |-> bestProvider,
          model     |-> IF catalogued THEN model ELSE "",
          max       |-> IF catalogued THEN MatchedCapabilities(capabilities, model)
                        ELSE -1,
          evaluated |-> IF hasConfig THEN << bestProvider >> ELSE << >> ]

\* `bestModel || this.providerConfigs.get(bestProvider)?.modelName || 'unknown'`
ReturnedModel(best) ==
    IF best.model # "" THEN best.model
    ELSE IF best.provider \in DOMAIN providerConfigs
         THEN providerConfigs[best.provider].modelName
         ELSE "unknown"

\* variant: the early `return { provider: bestProvider, model }` of line 237
\* is left out, so the loop over the other providers always runs
getBestModelForTask_NoEarlyReturn(capabilities, preferredProvider) ==
    LET bestProvider == IF preferredProvider # None THEN preferredProvider
                        ELSE defaultProvider
        best == ScanProviders(ConfigOrder(providerConfigs), capabilities,
                              PreferredFirst(capabilities, bestProvider))
    IN  [ provider |-> best.provider, model |-> ReturnedModel(best),
          evaluated |-> best.evaluated ]

\* returns { provider, model }; `evaluated` lists the providers whose default
\* model the call looked up
getBestModelForTask(capabilities, preferredProvider) ==
    LET bestProvider == IF preferredProvider # None THEN preferredProvider
                        ELSE defaultProvider
        start == PreferredFirst(capabilities, bestProvider)
        best  == ScanProviders(ConfigOrder(providerConfigs), capabilities, start)
    IN  IF start.max = Len(capabilities)
        THEN [ provider |-> bestProvider, model |-> start.model,
               evaluated |-> start.evaluated ]
        ELSE [ provider |-> best.provider, model |-> ReturnedModel(best),
               evaluated |-> best.evaluated ]

----------------------------------------------------------------------------
(* getFallbackProviders *)

\* variant: the test `this.providerConfigs.has(P)` is left out
FallbackIf_NoHasCheck(currentProvider, p) ==
    IF currentProvider # p THEN << p >> ELSE << >>

\* variant: the test `currentProvider !== P` is left out
FallbackIf_KeepsCurrent(currentProvider, p) ==
    IF p \in DOMAIN providerConfigs THEN << p >> ELSE << >>

\* one `if (currentProvider !== P && this.providerConfigs.has(P)) push(P)`
FallbackIf(currentProvider, p) ==
    IF currentProvider # p /\ p \in DOMAIN providerConfigs THEN << p >> ELSE << >>

\* variant: the local providers are pushed before the cloud providers
getFallbackProviders_LocalFirst(currentProvider) ==
    FallbackIf(currentProvider, "lmstudio") \o FallbackIf(currentProvider, "ollama")
    \o FallbackIf(currentProvider, "direct") \o FallbackIf(currentProvider, "openai")
    \o FallbackIf(currentProvider, "anthropic") \o FallbackIf(currentProvider, "google")
    \o FallbackIf(currentProvider, "cohere")

getFallbackProviders(currentProvider) ==
    FallbackIf(currentProvider, "openai") \o FallbackIf(currentProvider, "anthropic")
    \o FallbackIf(currentProvider, "google") \o FallbackIf(currentProvider, "cohere")
    \o FallbackIf(currentProvider, "lmstudio") \o FallbackIf(currentProvider, "ollama")
    \o FallbackIf(currentProvider, "direct")

----------------------------------------------------------------------------
(* Requests and outbound payloads *)

Truthy(text) == Len(text) > 0

Sep == << "\n\n" >>

Turn(role, content) == [ role |-> role, content |-> content ]

\* the config argument of an adapter, `this.providerConfigs.get(p)`
NoConfig == [ modelName |-> "", maxTokens |-> Unset, temperature |-> Unset ]

ConfigOf(p) ==
    IF p \in DOMAIN providerConfigs THEN providerConfigs[p] ELSE NoConfig

\* `request.temperature || config.temperature || 0.7`, every adapter
Temperature(req, config) ==
    Or(Or(req.temperature, config.temperature), DefaultTemperature)

\* `request.maxTokens || config.maxTokens`; the direct adapter appends
\* `|| 4096`
MaxTokens(provider, req, config) ==
    IF provider = "direct"
    THEN Or(Or(req.maxTokens, config.maxTokens), DefaultMaxTokens)
    ELSE Or(req.maxTokens, config.maxTokens)

\* `request.topP || 1`; the direct adapter passes no top-p argument
TopP(provider, req) ==
    IF provider = "direct" THEN Unset ELSE Or(req.topP, DefaultTopP)

\* one adapter invocation: the request it was given, what it hands to its
\* transport (unused channels are << >>), and how the call settled
Payload(provider, req, system, messages, message, file) ==
    [ provider |-> provider, request |-> req, sent |-> TRUE, system |-> system,
      messages |-> messages, message |-> message, file |-> file,
      temperature |-> Temperature(req, ConfigOf(provider)),
      maxTokens |-> MaxTokens(provider, req, ConfigOf(provider)),
      topP |-> TopP(provider, req),
      input |-> << >>, usage |-> NoUsage, outcome |-> "pending" ]

\* `request.messages || []`
MessagesOf(req) == IF req.hasMessages THEN req.messages ELSE << >>

\* generateWithOpenAI, lines 360-370: works on request.messages itself
OpenAIMessages(req) ==
    LET messages == MessagesOf(req)
        m1 == IF Truthy(req.system) /\ ~ \E i \in 1..Len(messages) : messages[i].role = "system"
              THEN << Turn("system", req.system) >> \o messages
              ELSE messages
    IN  IF Truthy(req.prompt) /\ Len(m1) = 0
        THEN Append(m1, Turn("user", req.prompt))
        ELSE m1

\* generateWithAnthropic, lines 405-417
AnthropicMessages(req) ==
    LET messages == MessagesOf(req)
        anthropicMessages ==
            [ i \in 1..Len(messages) |->
                Turn(IF messages[i].role = "user" THEN "user" ELSE "assistant",
                     messages[i].content) ]
    IN  IF Truthy(req.prompt) /\ Len(anthropicMessages) = 0
        THEN Append(anthropicMessages, Turn("user", req.prompt))
        ELSE anthropicMessages

\* generateWithGoogle, lines 449-473
GoogleMessages(req) ==
    LET messages == MessagesOf(req)
        googleMessages ==
            [ i \in 1..Len(messages) |->
                Turn(IF messages[i].role = "user" THEN "user" ELSE "model",
                     messages[i].content) ]
        userIdx == { i \in 1..Len(googleMessages) : googleMessages[i].role = "user" }
        firstUserIndex == CHOOSE i \in userIdx : \A j \in userIdx : i <= j
        g1 == IF Truthy(req.system) /\ Len(googleMessages) > 0 /\ userIdx # {}
              THEN [ googleMessages EXCEPT ![firstUserIndex].content =
                        req.system \o Sep \o googleMessages[firstUserIndex].content ]
              ELSE googleMessages
    IN  IF Truthy(req.prompt) /\ Len(g1) = 0
        THEN Append(g1, Turn("user", IF Truthy(req.system)
                                     THEN req.system \o Sep \o req.prompt
                                     ELSE req.prompt))
        ELSE g1

\* generateWithCohere, lines 508-540
CohereChatHistory(req) ==
    LET messages == MessagesOf(req)
        paired   == 2 * (Len(messages) \div 2)
        pairs    == [ i \in 1..paired |->
                        Turn(IF i % 2 = 1 THEN "USER" ELSE "CHATBOT", messages[i].content) ]
        h1 == IF Len(messages) % 2 # 0 /\ Len(messages) > 0
              THEN Append(pairs, Turn("USER", messages[Len(messages)].content))
              ELSE pairs
    IN  IF Truthy(req.prompt) /\ Len(h1) = 0
        THEN Append(h1, Turn("USER", req.prompt))
        ELSE h1

\* `message: prompt || messages[messages.length - 1]?.content || ''`
CohereMessage(req) ==
    LET messages == MessagesOf(req)
    IN  IF Truthy(req.prompt) THEN req.prompt
        ELSE IF Len(messages) > 0 THEN messages[Len(messages)].content
        ELSE << >>

\* generateWithLMStudio lines 583-599, generateWithOllama lines 629-646
LocalHttpMessages(req) ==
    LET messages == MessagesOf(req)
        formattedMessages ==
            (IF Truthy(req.system) THEN << Turn("system", req.system) >> ELSE << >>)
            \o messages
    IN  IF Truthy(req.prompt) /\ Len(formattedMessages) = 0
        THEN Append(formattedMessages, Turn("user", req.prompt))
        ELSE formattedMessages

\* generateWithDirectModel, lines 691-694
DirectPromptContent(req) ==
    IF Truthy(req.system) THEN req.system \o Sep \o req.prompt ELSE req.prompt

\* the payload each adapter builds from the request it is given
BuildPayload(p, req) ==
    CASE p = "openai"    -> Payload(p, req, << >>, OpenAIMessages(req), << >>, << >>)
      [] p = "anthropic" -> Payload(p, req, req.system, AnthropicMessages(req), << >>, << >>)
      [] p = "google"    -> Payload(p, req, << >>, GoogleMessages(req), << >>, << >>)
      [] p = "cohere"    -> Payload(p, req, req.system, CohereChatHistory(req), CohereMessage(req), << >>)
      [] p = "lmstudio"  -> Payload(p, req, << >>, LocalHttpMessages(req), << >>, << >>)
      [] p = "ollama"    -> Payload(p, req, << >>, LocalHttpMessages(req), << >>, << >>)
      [] p = "direct"    -> Payload(p, req, << >>, << >>, << >>, DirectPromptContent(req))

\* the request object after the adapter has run: only generateWithOpenAI
\* unshifts/pushes into the caller's own array (when there is one)
RequestAfter(p, req) ==
    IF p = "openai" /\ req.hasMessages
    THEN [ req EXCEPT !.messages = OpenAIMessages(req) ]
    ELSE req

----------------------------------------------------------------------------
(* Inputs *)

SeqsUpTo(S, n) == UNION { [ 1..k -> S ] : k \in 0..n }

Roles == { "user", "assistant", "system" }

PromptChoices == { << >>, << "X" >> }
SystemChoices == { << >>, << "S" >> }
MessageLists  == SeqsUpTo({ Turn(r, << "Y" >>) : r \in Roles }, MaxMsgs)

\* the LLMRequest fields the adapters read; hasMessages = FALSE is
\* `messages: undefined`
Requests ==
    { r \in [ prompt : PromptChoices, system : SystemChoices,
              hasMessages : BOOLEAN, messages : MessageLists,
              temperature : { Unset }, maxTokens : { Unset }, topP : { Unset } ] :
        ~ r.hasMessages => r.messages = << >> }

\* values the request schema admits: temperature 0..2, maxTokens positive,
\* topP 0..1, each optional
TemperatureChoices == { Unset, 0, 5, 20 }
MaxTokensChoices   == { Unset, 256 }
TopPChoices        == { Unset, 0, 5, 10 }

\* prompt-only requests with every choice of generation parameters
ParamRequests ==
    [ prompt : { << "X" >> }, system : { << >> }, hasMessages : { FALSE },
      messages : { << >> }, temperature : TemperatureChoices,
      maxTokens : MaxTokensChoices, topP : TopPChoices ]

\* "audio" is a tag of no catalogued model
CapabilityTags == { "reasoning", "vision", "audio" }

\* POST /completion
Bodies ==
    [ route : { "completion" },
      provider : LLMProvider \cup { None },
      capabilities : SeqsUpTo(CapabilityTags, MaxCaps),
      text : { << >> } ]

\* POST /embedding: `text` absent/empty or a string
EmbedBodies ==
    [ route : { "embedding" },
      provider : LLMProvider \cup { None },
      capabilities : { << >> },
      text : { << >>, << "T" >> } ]

\* usage as a backend reports it: absent, complete, or the prompt count only
UsageReports ==
    { NoUsage,
      [ prompt |-> 3, completion |-> 5, total |-> 8 ],
      [ prompt |-> 3, completion |-> Unset, total |-> Unset ] }

----------------------------------------------------------------------------
(* State *)

NoError == [ kind |-> "none", provider |-> None ]

\* the Error an adapter call of provider p rejects with
AdapterError(p) == [ kind |-> "adapter", provider |-> p ]

\* `Provider ${selectedProvider} not configured`
NotConfigured(p) == [ kind |-> "not configured", provider |-> p ]

NoBody    == [ route |-> "none", provider |-> None, capabilities |-> << >>,
               text |-> << >> ]
NoRequest == [ prompt |-> << >>, system |-> << >>, hasMessages |-> FALSE,
               messages |-> << >>, temperature |-> Unset, maxTokens |-> Unset,
               topP |-> Unset ]
NoFrame   == [ provider |-> None, selectedProvider |-> None, error |-> NoError,
               fallbackProviders |-> << >>, depth |-> 0 ]
NoCall    == [ provider |-> None, phase |-> "none" ]
NoResult  == [ status |-> 0, provider |-> None, model |-> "", error |-> NoError,
               usage |-> NoUsage, providers |-> << >>, embedding |-> FALSE ]

\* uuidv4() of the request being served, and its two temporary files
requestId  == "r1"
promptPath == "prompt-r1.txt"
outputPath == "output-r1.txt"

\* the service after `new LLMService()` in an environment of E
InitIn(E) ==
    \E e \in E :
        /\ env = e
        /\ providerConfigs = initProviderConfigs(e)
        /\ defaultProvider = initDefaultProvider(e, initProviderConfigs(e))
        /\ body = NoBody
        /\ request = NoRequest
        /\ pc = "idle"
        /\ frame = NoFrame
        /\ inflight = NoCall
        /\ calls = << >>
        /\ result = NoResult
        /\ tmpFiles = {}
        /\ localModelProcesses = {}
        /\ signalled = {}
        /\ redisClient = "open"
        /\ pendingEvent = "none"
        /\ peer = "none"

----------------------------------------------------------------------------
(* LLMController.generateCompletion and LLMService.generateCompletion *)

\* variant: the handler does not check its input
HasInput_Unchecked(r) == TRUE

\* controller line 115, negated
HasInput(r) ==
    ~ (~ Truthy(r.prompt) /\ (~ r.hasMessages \/ Len(r.messages) = 0))

\* variant: the capabilities of the request are ignored
ResolveProvider_IgnoresCapabilities(b) == b.provider

\* controller lines 120-125: the provider argument passed to the service
ResolveProvider(b) ==
    IF Len(b.capabilities) > 0
    THEN getBestModelForTask(b.capabilities, b.provider).provider
    ELSE b.provider

\* service line 271
SelectedProvider(provider) ==
    IF provider # None THEN provider ELSE defaultProvider

\* variant: the config lookup is not checked
HasConfig_Unchecked(p) == TRUE

\* service lines 272-276
HasConfig(p) == p \in DOMAIN providerConfigs

\* variant: ENABLE_LLM_FALLBACK is not read
FallbackAllowed_FlagIgnored(provider) == provider = None

\* service line 301
FallbackAllowed(provider) ==
    env.ENABLE_LLM_FALLBACK /\ provider = None

\* variant: the error of the last fallback is rethrown
RethrownError_LastFallback(error, fallbackError) == fallbackError

\* service line 315: `throw error` after the loop; fallbackError is the
\* error bound by the loop's own catch, error the one of the outer catch
RethrownError(error, fallbackError) == error

\* the last adapter invocation settles
Settle(log, outcome) == [ log EXCEPT ![Len(log)].outcome = outcome ]

\* the switch of lines 279-296 reaching the adapter of p: the adapter runs
\* up to its first await.  files and procs are the temporary files and the
\* process registry as the caller leaves them.  The direct adapter may
\* throw before it writes anything (model file missing, line 684; `os` is
\* not bound, line 688).
Invoke(p, req, fr, log, files, procs) ==
    /\ frame' = fr
    /\ pc' = "await"
    /\ result' = NoResult
    /\ \/ /\ p # "direct"
          /\ calls' = Append(log, BuildPayload(p, req))
          /\ request' = RequestAfter(p, req)
          /\ inflight' = [ provider |-> p, phase |-> "pending" ]
          /\ tmpFiles' = files
          /\ localModelProcesses' = procs
       \/ /\ p = "direct"
          /\ calls' = Append(log, [ BuildPayload(p, req) EXCEPT !.sent = FALSE,
                                                               !.file = << >> ])
          /\ request' = req
          /\ inflight' = [ provider |-> p, phase |-> "thrown" ]
          /\ tmpFiles' = files
          /\ localModelProcesses' = procs
       \/ /\ p = "direct"
          /\ calls' = Append(log, BuildPayload(p, req))
          /\ request' = req
          /\ inflight' = [ provider |-> p, phase |-> "spawned" ]
          /\ tmpFiles' = files \cup { promptPath }
          /\ localModelProcesses' = procs \cup { requestId }

\* the controller's catch: res.status(500).json({ error: error.message })
Surface(err, fr, files, procs) ==
    /\ result' = [ NoResult EXCEPT !.status = 500, !.error = err ]
    /\ pc' = "done"
    /\ frame' = fr
    /\ inflight' = NoCall
    /\ tmpFiles' = files
    /\ localModelProcesses' = procs

\* nested generateCompletion(request, fallbackProvider) throws at line 275
\* when the provider has no config; the loop's catch moves on
RECURSIVE SkipUnconfigured(_)
SkipUnconfigured(fallbacks) ==
    IF fallbacks = << >> \/ HasConfig(Head(fallbacks)) THEN fallbacks
    ELSE SkipUnconfigured(Tail(fallbacks))

\* the for loop of lines 303-311 over what is left of fallbackProviders
TryFallbacks(fr, fallbacks, fallbackError, log, files, procs) ==
    LET rest == SkipUnconfigured(fallbacks)
    IN  IF rest = << >>
        THEN /\ Surface(RethrownError(fr.error, fallbackError), fr, files, procs)
             /\ calls' = log
             /\ UNCHANGED request
        ELSE Invoke(Head(rest), request,
                    [ fr EXCEPT !.fallbackProviders = Tail(rest), !.depth = 1 ],
                    log, files, procs)

\* the awaited adapter of inflight.provider rejected with err:
\* catch block of lines 297-316, in the activation that awaited it
Rejected(err, files, procs) ==
    LET log == Settle(calls, "rejected")
    IN  IF frame.depth = 0
        THEN LET fr == [ frame EXCEPT !.error = err ]
             IN  IF FallbackAllowed(frame.provider)
                 THEN TryFallbacks(fr, getFallbackProviders(frame.selectedProvider),
                                   err, log, files, procs)
                 ELSE /\ Surface(err, fr, files, procs)
                      /\ calls' = log
                      /\ UNCHANGED request
        ELSE \* the nested activation has provider # undefined and rethrows;
             \* the loop's catch (line 307) logs and continues
             TryFallbacks(frame, frame.fallbackProviders, err, log, files, procs)

\* the direct adapter resolved: its response, tagged with its own provider,
\* is returned through every activation to res.json
Resolved(usage, files, procs) ==
    /\ result' = [ NoResult EXCEPT !.status = 200, !.provider = inflight.provider,
                                   !.usage = usage ]
    /\ pc' = "done"
    /\ inflight' = NoCall
    /\ tmpFiles' = files
    /\ localModelProcesses' = procs
    /\ calls' = Settle(calls, "resolved")
    /\ UNCHANGED << frame, request >>

StartRequest(b, r) ==
    /\ pc = "idle"
    /\ body' = b
    /\ UNCHANGED << env, pendingEvent, peer, providerConfigs, defaultProvider, signalled, redisClient >>
    /\ IF ~ HasInput(r)
       THEN /\ result' = [ NoResult EXCEPT
                             !.status = 400,
                             !.error = [ kind |-> "input required", provider |-> None ] ]
            /\ pc' = "done"
            /\ request' = r
            /\ calls' = << >>
            /\ frame' = NoFrame
            /\ inflight' = NoCall
            /\ UNCHANGED << tmpFiles, localModelProcesses >>
       ELSE LET provider == ResolveProvider(b)
                selectedProvider == SelectedProvider(provider)
                fr == [ NoFrame EXCEPT !.provider = provider,
                                       !.selectedProvider = selectedProvider ]
            IN  IF ~ HasConfig(selectedProvider)
                THEN /\ Surface(NotConfigured(selectedProvider), fr,
                                tmpFiles, localModelProcesses)
                     /\ request' = r
                     /\ calls' = << >>
                ELSE Invoke(selectedProvider, r, fr, << >>,
                            tmpFiles, localModelProcesses)

\* `x || 0` on a reported count
Count(x) == Or(x, 0)

ZeroUsage == [ promptTokens |-> 0, completionTokens |-> 0, totalTokens |-> 0 ]

\* variant: the reported counts are copied without `|| 0`
NormalizeUsage_Copied(p, reply) ==
    [ promptTokens |-> reply.prompt, completionTokens |-> reply.completion,
      totalTokens |-> reply.total ]

\* the `usage` object each chat/HTTP adapter returns for the backend's
\* reply: lines 389-393, 432-436, 492-496, 566-570, 611-615, 661-665
NormalizeUsage(p, reply) ==
    CASE p \in { "openai", "lmstudio" } ->
            [ promptTokens |-> Count(reply.prompt),
              completionTokens |-> Count(reply.completion),
              totalTokens |-> Count(reply.total) ]
      [] p \in { "anthropic", "ollama" } ->
            [ promptTokens |-> Count(reply.prompt),
              completionTokens |-> Count(reply.completion),
              totalTokens |-> Count(reply.prompt) + Count(reply.completion) ]
      [] OTHER -> ZeroUsage

\* variant: the provider that answered becomes the default provider
DefaultAfterSuccess_Promoted(p) == p

\* this.defaultProvider after a response was returned: generateCompletion
\* and the adapters assign no field of the service
DefaultAfterSuccess(p) == defaultProvider

\* a chat/HTTP adapter's awaited backend call returns a reply
AdapterResolve(reply) ==
    /\ pc = "await"
    /\ inflight.phase = "pending"
    /\ result' = [ NoResult EXCEPT !.status = 200, !.provider = inflight.provider,
                                   !.usage = NormalizeUsage(inflight.provider, reply) ]
    /\ pc' = "done"
    /\ inflight' = NoCall
    /\ calls' = [ Settle(calls, "resolved") EXCEPT ![Len(calls)].usage = reply ]
    /\ defaultProvider' = DefaultAfterSuccess(inflight.provider)
    /\ UNCHANGED << env, pendingEvent, peer, providerConfigs, body, frame, request, tmpFiles,
                    localModelProcesses, signalled, redisClient >>

\* an adapter's awaited call rejects (or the adapter threw before awaiting)
AdapterReject ==
    /\ pc = "await"
    /\ inflight.phase \in { "pending", "thrown" }
    /\ Rejected(AdapterError(inflight.provider), tmpFiles, localModelProcesses)
    /\ UNCHANGED << env, pendingEvent, peer, providerConfigs, defaultProvider, body, signalled,
                    redisClient >>

\* variant: the failure paths unlink the prompt file only
Unlinked_PromptOnly(code, files) ==
    IF code = 0 /\ outputPath \in files
    THEN files \ { promptPath, outputPath }
    ELSE files \ { promptPath }

\* the files left by the unlinkSync calls of the close handler (lines
\* 714-728) and, with a non-zero code, of the error handler (744-745), for
\* a run with the given prompt and output paths
UnlinkedFiles(prompt, output, code, files) ==
    IF code # 0
    THEN (files \ { prompt })
            \ (IF output \in files THEN { output } ELSE {})
    ELSE IF output \notin files
         THEN files \ { prompt }
         ELSE files \ { prompt, output }

\* the same for the run of the request being served
Unlinked(code, files) == UnlinkedFiles(promptPath, outputPath, code, files)

\* variant: the entry is never removed
Deregistered_Never(id, procs) == procs

\* variant: the whole registry is cleared
Deregistered_Cleared(id, procs) == {}

\* `this.localModelProcesses.delete(requestId)`, lines 712 and 743
Deregistered(id, procs) == procs \ { id }

\* process.on('close', ...), lines 711-740.  The runner has written its
\* output file or not by the time it exits.
ProcessClose(code, wroteOutput) ==
    /\ pc = "await"
    /\ inflight.phase = "spawned"
    /\ LET files == IF wroteOutput THEN tmpFiles \cup { outputPath } ELSE tmpFiles
           procs == Deregistered(requestId, localModelProcesses)
       IN  IF code # 0 \/ outputPath \notin files
           THEN Rejected(AdapterError("direct"), Unlinked(code, files), procs)
           ELSE Resolved(ZeroUsage, Unlinked(code, files), procs)
    /\ signalled' = signalled \ { requestId }
    /\ UNCHANGED << env, pendingEvent, peer, providerConfigs, defaultProvider, body, redisClient >>

\* process.on('error', ...), lines 742-747
ProcessError(wroteOutput) ==
    /\ pc = "await"
    /\ inflight.phase = "spawned"
    /\ LET files == IF wroteOutput THEN tmpFiles \cup { outputPath } ELSE tmpFiles
       IN  Rejected(AdapterError("direct"), Unlinked(1, files),
                    Deregistered(requestId, localModelProcesses))
    /\ signalled' = signalled \ { requestId }
    /\ pendingEvent' = "close"
    /\ UNCHANGED << env, peer, providerConfigs, defaultProvider, body, redisClient >>

\* fs.unlinkSync(path) throws ENOENT when the file does not exist
UnlinkThrows(path, files) == path \notin files

\* the 'close' event that follows the 'error' event of a child process that
\* could not be spawned: the close handler runs again with a non-zero code
\* (lines 711-717).  An error thrown by a listener is caught by nothing and
\* ends the Node process; rejecting the settled promise again has no effect.
LateClose ==
    /\ pendingEvent = "close"
    /\ pc # "crashed"
    /\ pendingEvent' = "none"
    /\ localModelProcesses' = Deregistered(requestId, localModelProcesses)
    /\ IF UnlinkThrows(promptPath, tmpFiles)
       THEN pc' = "crashed" /\ tmpFiles' = tmpFiles
       ELSE pc' = pc /\ tmpFiles' = Unlinked(1, tmpFiles)
    /\ UNCHANGED << env, peer, providerConfigs, defaultProvider, body, request,
                    frame, inflight, calls, result, signalled, redisClient >>

\* the handler has sent its response and ends; its locals are gone.  The
\* next request draws a new uuid: the events of the old child process are
\* not its events.
Return ==
    /\ pc = "done"
    /\ pendingEvent = "none"
    /\ pc' = "idle"
    /\ body' = NoBody
    /\ request' = NoRequest
    /\ frame' = NoFrame
    /\ calls' = << >>
    /\ result' = NoResult
    /\ UNCHANGED << env, pendingEvent, peer, providerConfigs, defaultProvider, inflight, tmpFiles,
                    localModelProcesses, signalled, redisClient >>

Step(B, R) ==
    \/ \E b \in B, r \in R : StartRequest(b, r)
    \/ \E reply \in UsageReports : AdapterResolve(reply)
    \/ AdapterReject
    \/ \E code \in { 0, 1 }, wroteOutput \in BOOLEAN : ProcessClose(code, wroteOutput)
    \/ \E wroteOutput \in BOOLEAN : ProcessError(wroteOutput)
    \/ LateClose
    \/ Return

----------------------------------------------------------------------------
(* The direct adapter serving a concurrent request *)

\* uuidv4() of the concurrent request, and its two temporary files
peerId         == "r2"
peerPromptPath == "prompt-r2.txt"
peerOutputPath == "output-r2.txt"

\* lines 695-709 run for the concurrent request
PeerSpawn ==
    /\ pc # "crashed"
    /\ peer = "none"
    /\ "direct" \in DOMAIN providerConfigs
    /\ peer' = "spawned"
    /\ tmpFiles' = tmpFiles \cup { peerPromptPath }
    /\ localModelProcesses' = localModelProcesses \cup { peerId }
    /\ UNCHANGED << env, pendingEvent, providerConfigs, defaultProvider, body,
                    request, pc, frame, inflight, calls, result, signalled,
                    redisClient >>

\* its runner writes the output file
PeerWriteOutput ==
    /\ pc # "crashed"
    /\ peer = "spawned"
    /\ peerOutputPath \notin tmpFiles
    /\ tmpFiles' = tmpFiles \cup { peerOutputPath }
    /\ UNCHANGED << env, pendingEvent, peer, providerConfigs, defaultProvider, body,
                    request, pc, frame, inflight, calls, result,
                    localModelProcesses, signalled, redisClient >>

\* its close handler, lines 711-740
PeerClose(code) ==
    /\ pc # "crashed"
    /\ peer = "spawned"
    /\ peer' = "none"
    /\ localModelProcesses' = Deregistered(peerId, localModelProcesses)
    /\ tmpFiles' = UnlinkedFiles(peerPromptPath, peerOutputPath, code, tmpFiles)
    /\ signalled' = signalled \ { peerId }
    /\ UNCHANGED << env, pendingEvent, providerConfigs, defaultProvider, body,
                    request, pc, frame, inflight, calls, result, redisClient >>

----------------------------------------------------------------------------
(* LLMController.embedText over LLMService.embedText *)

EmbeddingNotImplemented(p) == [ kind |-> "embedding not implemented", provider |-> p ]

ClientNotInitialized == [ kind |-> "client not initialized", provider |-> "openai" ]

\* service line 756
EmbedProvider(provider) ==
    IF provider # None THEN provider ELSE defaultProvider

\* variant: every provider's embedding request is served by the OpenAI case
EmbeddingImplemented_Any(p) == TRUE

\* the switch of lines 758-775 has the single case LLMProvider.OPENAI
EmbeddingImplemented(p) == p = "openai"

\* `this.openai.embeddings.create({ model, input: text })`, line 764
EmbeddingCall(text) ==
    [ Payload("openai", NoRequest, << >>, << >>, << >>, << >>) EXCEPT
        !.input = text, !.temperature = Unset, !.maxTokens = Unset,
        !.topP = Unset ]

\* the handler up to its response or to the await of line 764
EmbedText(b) ==
    /\ pc = "idle"
    /\ body' = b
    /\ request' = NoRequest
    /\ LET selectedProvider == EmbedProvider(b.provider)
           failed(status, err) ==
               /\ result' = [ NoResult EXCEPT !.status = status, !.error = err ]
               /\ pc' = "done"
               /\ calls' = << >>
               /\ inflight' = NoCall
       IN  IF ~ Truthy(b.text)
           THEN /\ failed(400, [ kind |-> "text required", provider |-> None ])
                /\ frame' = NoFrame
           ELSE /\ frame' = [ NoFrame EXCEPT !.provider = b.provider,
                                             !.selectedProvider = selectedProvider ]
                /\ IF ~ EmbeddingImplemented(selectedProvider)
                   THEN failed(500, EmbeddingNotImplemented(selectedProvider))
                   ELSE IF "openai" \notin DOMAIN providerConfigs
                        THEN failed(500, ClientNotInitialized)
                        ELSE /\ calls' = << EmbeddingCall(b.text) >>
                             /\ inflight' = [ provider |-> "openai",
                                              phase |-> "embedding" ]
                             /\ pc' = "await"
                             /\ result' = NoResult
    /\ UNCHANGED << env, pendingEvent, peer, providerConfigs, defaultProvider, tmpFiles,
                    localModelProcesses, signalled, redisClient >>

\* the embeddings call returns: res.json({ embedding })
EmbedResolve ==
    /\ pc = "await"
    /\ inflight.phase = "embedding"
    /\ result' = [ NoResult EXCEPT !.status = 200, !.provider = inflight.provider,
                                   !.embedding = TRUE ]
    /\ pc' = "done"
    /\ inflight' = NoCall
    /\ calls' = Settle(calls, "resolved")
    /\ UNCHANGED << env, pendingEvent, peer, providerConfigs, defaultProvider, body, request, frame,
                    tmpFiles, localModelProcesses, signalled, redisClient >>

\* the embeddings call rejects: the controller's catch answers 500
EmbedReject ==
    /\ pc = "await"
    /\ inflight.phase = "embedding"
    /\ result' = [ NoResult EXCEPT !.status = 500,
                                   !.error = AdapterError(inflight.provider) ]
    /\ pc' = "done"
    /\ inflight' = NoCall
    /\ calls' = Settle(calls, "rejected")
    /\ UNCHANGED << env, pendingEvent, peer, providerConfigs, defaultProvider, body, request, frame,
                    tmpFiles, localModelProcesses, signalled, redisClient >>

----------------------------------------------------------------------------
(* LLMController.getAvailableProviders *)

\* `Object.values(LLMProvider).filter(provider => { return true; })`
AvailableProviders == SelectSeq(ProviderOrder, LAMBDA provider : TRUE)

GetAvailableProviders ==
    /\ pc = "idle"
    /\ body' = [ NoBody EXCEPT !.route = "providers" ]
    /\ result' = [ NoResult EXCEPT !.status = 200, !.providers = AvailableProviders ]
    /\ pc' = "done"
    /\ UNCHANGED << env, pendingEvent, peer, providerConfigs, defaultProvider, request, frame, inflight,
                    calls, tmpFiles, localModelProcesses, signalled, redisClient >>

----------------------------------------------------------------------------
(* LLMService.shutdown *)

\* variant: no process of the registry is killed
KillTargets_None == {}

\* `for (const process of this.localModelProcesses.values()) process.kill()`
KillTargets == localModelProcesses

\* lines 778-785
Shutdown ==
    /\ pc # "crashed"
    /\ redisClient = "open"
    /\ signalled' = signalled \cup KillTargets
    /\ redisClient' = "closed"
    /\ UNCHANGED << env, pendingEvent, peer, providerConfigs, defaultProvider, body, request, pc, frame,
                    inflight, calls, result, tmpFiles, localModelProcesses >>

----------------------------------------------------------------------------
(* LLMService.getBestModelForTask called on its own *)

\* the arguments of a call: a capability list and a preferred provider or none
TaskCalls ==
    [ route : { "bestModel" },
      provider : LLMProvider \cup { None },
      capabilities : SeqsUpTo(CapabilityTags, MaxTaskCaps),
      text : { << >> } ]

\* one call; the returned pair is kept in `result`
BestModelCall(b) ==
    /\ pc = "idle"
    /\ body' = b
    /\ LET best == getBestModelForTask(b.capabilities, b.provider)
       IN  result' = [ NoResult EXCEPT !.provider = best.provider,
                                      !.model = best.model ]
    /\ pc' = "done"
    /\ UNCHANGED << env, pendingEvent, peer, providerConfigs, defaultProvider, request, frame, inflight,
                    calls, tmpFiles, localModelProcesses, signalled, redisClient >>

----------------------------------------------------------------------------
(* Specifications *)

\* requests that carry a prompt only, or nothing at all
RoutingRequests == { r \in Requests : ~ r.hasMessages /\ r.system = << >> }

\* bodies that list no capabilities
PlainBodies == { b \in Bodies : b.capabilities = << >> }

\* Fallback routing: every environment, a named provider or none
Init == InitIn(Envs)

Next == Step(PlainBodies, RoutingRequests)

Spec == Init /\ [][Next]_vars

\* Capability routing: every set of configured providers and both model
\* deployments, with the default provider left to registration order or
\* named wrongly; every provider/capabilities choice
CapsEnvs == { e \in Envs : e.DEFAULT_LLM_PROVIDER \in { None, "bedrock" } }

InitCaps == InitIn(CapsEnvs)

NextCaps == Step(Bodies, RoutingRequests)

SpecCaps == InitCaps /\ [][NextCaps]_vars

\* Payloads: every request shape, sent to each provider of a deployment
\* that has all seven configured
PayloadEnvs ==
    { e \in Envs : /\ e.keys = LLMProvider
                   /\ e.models = BuiltinModel
                   /\ e.DEFAULT_LLM_PROVIDER = None }

InitPayload == InitIn(PayloadEnvs)

NextPayload == Step(PlainBodies, Requests)

SpecPayload == InitPayload /\ [][NextPayload]_vars

\* Generation parameters: every choice of temperature, maxTokens and topP,
\* sent to each provider of a deployment that has all seven configured
InitParams == InitIn(PayloadEnvs)

NextParams == Step(PlainBodies, ParamRequests)

SpecParams == InitParams /\ [][NextParams]_vars

\* The whole service: completion, embedding and provider listing requests,
\* model selection and shutdown, for every set of configured providers with the built-in
\* default models and the default provider left to registration order or
\* set to anthropic
ServiceEnvs ==
    { e \in Envs : /\ e.models = BuiltinModel
                   /\ e.DEFAULT_LLM_PROVIDER \in { None, "anthropic" } }

InitService == InitIn(ServiceEnvs)

NextService ==
    \/ Step(PlainBodies, RoutingRequests)
    \/ \E b \in TaskCalls : BestModelCall(b)
    \/ \E b \in EmbedBodies : EmbedText(b)
    \/ EmbedResolve
    \/ EmbedReject
    \/ GetAvailableProviders
    \/ Shutdown

SpecService == InitService /\ [][NextService]_vars

\* Concurrent local runs: completion requests while the direct adapter
\* serves another request, in deployments that have the direct provider
ConcurrentEnvs ==
    { e \in Envs : /\ "direct" \in e.keys
                   /\ e.models = BuiltinModel
                   /\ e.DEFAULT_LLM_PROVIDER \in { None, "direct" } }

InitConcurrent == InitIn(ConcurrentEnvs)

NextConcurrent ==
    \/ Step(PlainBodies, RoutingRequests)
    \/ PeerSpawn
    \/ PeerWriteOutput
    \/ \E code \in { 0, 1 } : PeerClose(code)

SpecConcurrent == InitConcurrent /\ [][NextConcurrent]_vars

\* Progress: completion requests under the assumption that every awaited
\* adapter call settles and every pending process event is delivered
LiveEnvs ==
    { e \in Envs : /\ e.models = BuiltinModel
                   /\ e.DEFAULT_LLM_PROVIDER \in { None, "direct" } }

InitLive == InitIn(LiveEnvs)

NextLive == Step(PlainBodies, RoutingRequests)

\* the awaited adapter call resolves or rejects
Settles ==
    \/ \E reply \in UsageReports : AdapterResolve(reply)
    \/ AdapterReject
    \/ \E code \in { 0, 1 }, wroteOutput \in BOOLEAN : ProcessClose(code, wroteOutput)
    \/ \E wroteOutput \in BOOLEAN : ProcessError(wroteOutput)

SpecLive ==
    InitLive /\ [][NextLive]_vars /\ WF_vars(Settles) /\ WF_vars(LateClose)

\* Model selection: getBestModelForTask for every capability list and
\* preferred provider, in the environments of capability routing
InitTask == InitIn(CapsEnvs)

NextTask ==
    \/ \E b \in TaskCalls : BestModelCall(b)
    \/ Return

SpecTask == InitTask /\ [][NextTask]_vars

----------------------------------------------------------------------------
(* Vocabulary of the properties *)

\* the providers whose adapter was invoked for the current request, in order
Attempted == [ i \in 1..Len(calls) |-> calls[i].provider ]

Configured == DOMAIN providerConfigs

\* the handler is finished and the first adapter it invoked had failed
FirstFailed ==
    /\ pc = "done"
    /\ Len(calls) >= 1
    /\ calls[1].outcome = "rejected"

\* s is an initial segment of t
IsPrefix(s, t) ==
    /\ Len(s) <= Len(t)
    /\ \A i \in 1..Len(s) : s[i] = t[i]

\* the fixed order: cloud providers, then local ones, without provider a
OthersInOrder(a) ==
    SelectSeq(ProviderOrder, LAMBDA q : q # a /\ q \in Configured)

----------------------------------------------------------------------------
(* C1 *)

\* C1: whenever the first adapter of a request failed while fallback is
\* enabled, however the first provider was resolved, the other configured
\* providers were attempted in fallback order until one succeeded: either a
\* response was returned, or every other configured provider was attempted.
C1_FallbackForEveryResolution ==
    (FirstFailed /\ env.ENABLE_LLM_FALLBACK) =>
        /\ IsPrefix(Attempted, << calls[1].provider >> \o OthersInOrder(calls[1].provider))
        /\ \/ result.status = 200
           \/ Attempted = << calls[1].provider >> \o OthersInOrder(calls[1].provider)

----------------------------------------------------------------------------
(* C2 *)

\* C2 as stated: when the first provider and every fallback failed, the
\* error surfaced is the one of the last provider tried.
C2_LastFallbackErrorSurfaced ==
    (FirstFailed /\ env.ENABLE_LLM_FALLBACK /\ result.status = 500) =>
        result.error = AdapterError(calls[Len(calls)].provider)

\* C2 amended: when the first provider and every fallback failed, the error
\* surfaced is the one of the provider selected first.
C2_OriginalErrorSurfaced ==
    (FirstFailed /\ env.ENABLE_LLM_FALLBACK /\ result.status = 500) =>
        result.error = AdapterError(calls[1].provider)

\* two fallbacks were tried after the first provider and all three failed
C2_Witness ==
    /\ FirstFailed
    /\ env.ENABLE_LLM_FALLBACK
    /\ result.status = 500
    /\ Len(calls) >= 3
    /\ result.error = AdapterError(calls[1].provider)

----------------------------------------------------------------------------
(* C3 *)

\* C3: for every failed provider f, getFallbackProviders(f) does not
\* contain f, contains configured providers only, and contains none twice.
C3_FallbackListWellFormed ==
    \A f \in LLMProvider :
        LET fallbacks == getFallbackProviders(f)
        IN  /\ \A i \in 1..Len(fallbacks) :
                 /\ fallbacks[i] # f
                 /\ fallbacks[i] \in Configured
            /\ \A i, j \in 1..Len(fallbacks) :
                 fallbacks[i] = fallbacks[j] => i = j

\* a fallback attempt is in flight whose list had several entries, while
\* some provider is not configured
C3_Witness ==
    /\ pc = "await"
    /\ frame.depth = 1
    /\ Len(getFallbackProviders(frame.selectedProvider)) >= 2
    /\ Configured # LLMProvider

----------------------------------------------------------------------------
(* C4 *)

\* C4: a response returned after the first provider A failed (fallback
\* enabled) is tagged with a configured provider other than A, the one that
\* resolved; every configured provider before it in the fixed order (other
\* than A) was invoked and rejected, and none after it was invoked.
C4_FirstSuccessInOrder ==
    (FirstFailed /\ env.ENABLE_LLM_FALLBACK /\ result.status = 200) =>
        LET a     == calls[1].provider
            tag   == result.provider
        IN  /\ tag # a
            /\ tag \in Configured
            /\ calls[Len(calls)].provider = tag
            /\ calls[Len(calls)].outcome = "resolved"
            /\ \A q \in Configured \ { a } :
                 /\ Rank(q) < Rank(tag) =>
                      \E i \in 1..Len(calls) :
                          calls[i].provider = q /\ calls[i].outcome = "rejected"
                 /\ Rank(q) > Rank(tag) =>
                      \A i \in 1..Len(calls) : calls[i].provider # q

\* the second fallback in order answered, with a later one never invoked
C4_Witness ==
    /\ FirstFailed
    /\ env.ENABLE_LLM_FALLBACK
    /\ result.status = 200
    /\ Len(calls) = 3
    /\ Len(OthersInOrder(calls[1].provider)) >= 3

----------------------------------------------------------------------------
(* C5 *)

\* C5: within one request no provider's adapter is invoked twice, and the
\* fallback attempts are the entries of the one fallback list built for
\* the first provider (no nested chain).
C5_EachProviderAtMostOnce ==
    /\ \A i, j \in 1..Len(calls) : calls[i].provider = calls[j].provider => i = j
    /\ Len(calls) >= 1 =>
         IsPrefix(Tail(Attempted), getFallbackProviders(calls[1].provider))

\* every fallback failed after the first provider: the longest chain
C5_Witness ==
    /\ FirstFailed
    /\ result.status = 500
    /\ Len(calls) >= 3
    /\ Len(calls) = 1 + Len(getFallbackProviders(calls[1].provider))

----------------------------------------------------------------------------
(* C6 *)

\* C6: a request whose resolved provider has no config ends with the
\* 'not configured' error and no adapter invocation; no adapter of an
\* unconfigured provider is ever invoked.
C6_UnconfiguredIsConfigurationError ==
    /\ \A i \in 1..Len(calls) : calls[i].provider \in Configured
    /\ (pc = "done" /\ frame.selectedProvider # None
            /\ frame.selectedProvider \notin Configured) =>
         /\ result.status = 500
         /\ result.error = NotConfigured(frame.selectedProvider)
         /\ calls = << >>

\* the default provider is not configured, others are, fallback is enabled
C6_Witness ==
    /\ pc = "done"
    /\ body.provider = None
    /\ env.ENABLE_LLM_FALLBACK
    /\ Configured # {}
    /\ frame.selectedProvider \notin Configured
    /\ result.error = NotConfigured(frame.selectedProvider)

----------------------------------------------------------------------------
(* C7 *)

\* provider p is configured and its default model has every listed capability
Covers(p, capabilities) ==
    /\ p \in Configured
    /\ \A i \in 1..Len(capabilities) :
         hasCapability(providerConfigs[p].modelName, capabilities[i])

\* C7 as stated: the first adapter invoked is the explicitly named provider
\* whatever capabilities are listed; the best match without a preference
\* when only capabilities are given; the default when neither is given.
C7_ExplicitChoiceFirst ==
    Len(calls) >= 1 =>
        calls[1].provider =
            IF body.provider # None THEN body.provider
            ELSE IF Len(body.capabilities) > 0
                 THEN getBestModelForTask(body.capabilities, None).provider
                 ELSE defaultProvider

\* C7 amended: the named provider is invoked first when no capabilities are
\* listed or its default model covers all of them; whenever capabilities
\* are listed the first provider is the best match computed with the named
\* provider (or the default) as the preferred one; the default is used when
\* neither a provider nor capabilities are given.
C7_ExplicitChoiceIsPreference ==
    Len(calls) >= 1 =>
        /\ (body.provider # None
              /\ (Len(body.capabilities) = 0 \/ Covers(body.provider, body.capabilities)))
             => calls[1].provider = body.provider
        /\ Len(body.capabilities) > 0
             => calls[1].provider =
                    getBestModelForTask(body.capabilities, body.provider).provider
        /\ (body.provider = None /\ Len(body.capabilities) = 0)
             => calls[1].provider = defaultProvider

\* a named, configured provider was passed over for a better match
C7_Witness ==
    /\ Len(calls) >= 1
    /\ body.provider \in Configured
    /\ Len(body.capabilities) > 0
    /\ calls[1].provider # body.provider

----------------------------------------------------------------------------
(* C8 *)

\* C8: a request with neither a prompt nor a non-empty messages list
\* reaches no adapter, and ends with the controller's 400.
C8_NoInputNoBackendCall ==
    (pc # "idle" /\ ~ Truthy(request.prompt) /\ Len(request.messages) = 0) =>
        /\ calls = << >>
        /\ pc = "done"
        /\ result.status = 400

\* an empty messages list and a system instruction, but no prompt
C8_Witness ==
    /\ pc = "done"
    /\ result.status = 400
    /\ request.hasMessages
    /\ Truthy(request.system)
    /\ body.provider # None

----------------------------------------------------------------------------
(* C9 *)

\* part occurs in text
Contains(text, part) ==
    \E k \in 0..(Len(text) - Len(part)) : SubSeq(text, k + 1, k + Len(part)) = part

\* the payload of invocation c has a user turn (for Cohere also the
\* `message` field, the current user turn) that carries the prompt
CarriesPrompt(c) ==
    \/ \E i \in 1..Len(c.messages) :
          /\ c.messages[i].role \in { "user", "USER" }
          /\ Contains(c.messages[i].content, c.request.prompt)
    \/ c.provider = "cohere" /\ c.message = c.request.prompt

\* C9: every chat adapter given a request with a prompt and an empty or
\* absent messages list sends a user turn carrying the prompt, whatever
\* the system instruction.
C9_PromptNeverDropped ==
    \A i \in 1..Len(calls) :
        (calls[i].provider # "direct"
            /\ Len(calls[i].request.messages) = 0
            /\ Truthy(calls[i].request.prompt))
        => CarriesPrompt(calls[i])

----------------------------------------------------------------------------
(* C10 *)

\* the conversation the backend receives, in unified roles: for Cohere the
\* chat history followed by `message`, the turn the backend answers
Conversation(c) ==
    IF c.provider = "cohere"
    THEN [ i \in 1..Len(c.messages) |->
            Turn(IF c.messages[i].role = "USER" THEN "user" ELSE "assistant",
                 c.messages[i].content) ]
         \o << Turn("user", c.message) >>
    ELSE c.messages

\* C10: a request with only prompt = X reaches every backend as exactly one
\* user turn with content X, and the local runner as a prompt file with
\* content X.
C10_PromptOnlyIsOneUserTurn ==
    \A i \in 1..Len(calls) :
        LET c == calls[i]
        IN  (c.sent /\ Truthy(c.request.prompt) /\ ~ Truthy(c.request.system)
                /\ Len(c.request.messages) = 0)
            => IF c.provider = "direct"
               THEN c.file = c.request.prompt
               ELSE Conversation(c) = << Turn("user", c.request.prompt) >>

----------------------------------------------------------------------------
(* C11 *)

\* text begins with part
StartsWith(text, part) ==
    /\ Len(part) <= Len(text)
    /\ SubSeq(text, 1, Len(part)) = part

\* the payload of invocation c carries the request's system instruction:
\* in the system/preamble parameter (Anthropic, Cohere), as a system-role
\* message (OpenAI, LM Studio, Ollama), or at the head of the first user
\* turn (Google) or of the prompt file (direct)
CarriesSystem(c) ==
    CASE c.provider \in { "anthropic", "cohere" } ->
            c.system = c.request.system
      [] c.provider \in { "openai", "lmstudio", "ollama" } ->
            \E i \in 1..Len(c.messages) :
                /\ c.messages[i].role = "system"
                /\ c.messages[i].content = c.request.system
      [] c.provider = "google" ->
            \E i \in 1..Len(c.messages) :
                /\ c.messages[i].role = "user"
                /\ \A j \in 1..(i - 1) : c.messages[j].role # "user"
                /\ StartsWith(c.messages[i].content, c.request.system)
      [] c.provider = "direct" ->
            StartsWith(c.file, c.request.system)

\* C11: every adapter given a request with a system instruction sends a
\* payload that carries the instruction, whatever the messages list is.
C11_SystemNeverLost ==
    \A i \in 1..Len(calls) :
        (calls[i].sent /\ Truthy(calls[i].request.system))
        => CarriesSystem(calls[i])

----------------------------------------------------------------------------
(* C12 *)

\* the preferred provider of the controller's getBestModelForTask call
Preferred == IF body.provider # None THEN body.provider ELSE defaultProvider

\* the handler of the current request has called getBestModelForTask
CalledBestModel == frame # NoFrame /\ Len(body.capabilities) > 0

\* no configured provider's default model has any of the capabilities
NoModelMatches(capabilities) ==
    \A p \in Configured : \A i \in 1..Len(capabilities) :
        ~ hasCapability(providerConfigs[p].modelName, capabilities[i])

\* C12: when no configured default model has any requested capability,
\* getBestModelForTask returns the preferred provider with that provider's
\* own default model, and the controller routes to it.
C12_NoMatchReturnsPreferred ==
    (CalledBestModel /\ NoModelMatches(body.capabilities))
    => LET best == getBestModelForTask(body.capabilities, body.provider)
       IN  /\ best.provider = Preferred
           /\ Preferred \in Configured
                => best.model = providerConfigs[Preferred].modelName
           /\ frame.provider = Preferred

----------------------------------------------------------------------------
(* C13 *)

\* C13: when the preferred provider's default model has every requested
\* capability, getBestModelForTask returns that provider and model and has
\* looked up the default model of no other provider.
C13_FullCoverReturnsAtOnce ==
    (CalledBestModel /\ Covers(Preferred, body.capabilities))
    => LET best == getBestModelForTask(body.capabilities, body.provider)
       IN  /\ best.provider = Preferred
           /\ best.model = providerConfigs[Preferred].modelName
           /\ best.evaluated = << Preferred >>
           /\ frame.provider = Preferred

\* the preferred provider covers the request while a provider registered
\* before it covers the request as well
C13_Witness ==
    /\ CalledBestModel
    /\ Covers(Preferred, body.capabilities)
    /\ frame.provider = Preferred
    /\ \E q \in Configured :
          /\ Rank(q) < Rank(Preferred)
          /\ Covers(q, body.capabilities)

----------------------------------------------------------------------------
(* C14 *)

OverrideAdopted ==
    /\ env.DEFAULT_LLM_PROVIDER # None
    /\ toLowerCase(env.DEFAULT_LLM_PROVIDER) \in Configured

----------------------------------------------------------------------------
(* C15 *)

\* C15: a generation parameter the request sets, and the backend's protocol
\* supports, is sent with the request's value, 0 included.
C15_RequestParametersSent ==
    \A i \in 1..Len(calls) :
        LET c == calls[i]
        IN  c.sent =>
              /\ c.request.temperature # Unset
                    => c.temperature = c.request.temperature
              /\ c.request.maxTokens # Unset
                    => c.maxTokens = c.request.maxTokens
              /\ (c.request.topP # Unset /\ c.provider # "direct")
                    => c.topP = c.request.topP

----------------------------------------------------------------------------
(* C16 *)

\* invocation c is a run of the direct adapter that wrote its prompt file
\* and whose promise has settled
DirectRunSettled(c) ==
    /\ c.provider = "direct"
    /\ c.sent
    /\ c.outcome \in { "resolved", "rejected" }

----------------------------------------------------------------------------
(* C17 *)

\* an embedding request with a text is being or has been handled, and the
\* provider it resolves to is not openai
EmbedOnOtherProvider ==
    /\ body.route = "embedding"
    /\ Truthy(body.text)
    /\ EmbedProvider(body.provider) # "openai"

\* C17: an embedding request that resolves to a provider other than openai
\* is answered at once with the "not implemented for provider" error; no
\* backend is called for it, whatever the fallback flag and whatever else
\* is configured.
C17_EmbeddingOnlyOnOpenAI ==
    EmbedOnOtherProvider
    => /\ pc = "done"
       /\ result.status = 500
       /\ result.error = EmbeddingNotImplemented(EmbedProvider(body.provider))
       /\ calls = << >>
       /\ inflight = NoCall

\* the request names no provider, the default is anthropic, fallback is
\* enabled and openai is configured
C17_Witness ==
    /\ EmbedOnOtherProvider
    /\ pc = "done"
    /\ body.provider = None
    /\ defaultProvider = "anthropic"
    /\ env.ENABLE_LLM_FALLBACK
    /\ "openai" \in Configured
    /\ result.status = 500

----------------------------------------------------------------------------
(* C18 *)

\* the child processes of direct-adapter runs that have not closed yet
LiveProcesses ==
    (IF inflight.phase = "spawned" THEN { requestId } ELSE {})
    \cup (IF peer = "spawned" THEN { peerId } ELSE {})

\* a step of shutdown()
ShutdownStep == redisClient = "open" /\ redisClient' = "closed"

----------------------------------------------------------------------------
(* C19 *)

\* a completion request has been answered successfully
CompletionSucceeded ==
    /\ pc = "done"
    /\ body.route = "completion"
    /\ result.status = 200

\* C19: a successful completion response has the three usage counts, each a
\* number, and all three are 0 when the backend's reply reported no usage.
C19_UsageAlwaysPresent ==
    CompletionSucceeded
    => /\ result.usage.promptTokens \in Nat
       /\ result.usage.completionTokens \in Nat
       /\ result.usage.totalTokens \in Nat
       /\ calls[Len(calls)].usage = NoUsage => result.usage = ZeroUsage

\* on the fallback path, a backend that can report usage replied without any
C19_Witness ==
    /\ CompletionSucceeded
    /\ Len(calls) >= 2
    /\ result.provider = "ollama"
    /\ calls[Len(calls)].usage = NoUsage
    /\ result.usage = ZeroUsage

----------------------------------------------------------------------------
(* C20 *)

\* C20: the provider listing is exactly the set of configured providers.
C20_ListsConfiguredProviders ==
    (pc = "done" /\ body.route = "providers")
    => /\ result.status = 200
       /\ { result.providers[i] : i \in 1..Len(result.providers) } = Configured

----------------------------------------------------------------------------
(* C21 *)

\* a call of getBestModelForTask has returned
BestModelReturned == pc = "done" /\ body.route = "bestModel"

\* the configured providers whose default model is in the capability catalog
Catalogued ==
    { p \in Configured : providerConfigs[p].modelName \in DOMAIN modelCapabilities }

\* how many of the call's capabilities the default model of p has
Matched(p) == MatchedCapabilities(body.capabilities, providerConfigs[p].modelName)

\* the order of evaluation: the preferred provider, then store order
EvalPosition(p) == IF p = Preferred THEN 0 ELSE Rank(p)

\* C21: when the preferred provider's default model does not cover the
\* call's capabilities, the provider returned has the highest match count
\* among the catalogued default models of the configured providers, and
\* among those with that count it is the one evaluated first.
C21_BestMatchFirstSeen ==
    (BestModelReturned /\ ~ Covers(Preferred, body.capabilities)
        /\ Catalogued # {})
    => /\ result.provider \in Catalogued
       /\ \A q \in Catalogued :
             /\ Matched(q) <= Matched(result.provider)
             /\ Matched(q) = Matched(result.provider)
                   => EvalPosition(result.provider) <= EvalPosition(q)

\* the preferred provider matches one of two capabilities, a provider
\* registered before it matches one as well, and a later one matches both
C21_Witness ==
    /\ BestModelReturned
    /\ Len(body.capabilities) = 2
    /\ Preferred \in Catalogued
    /\ Matched(Preferred) = 1
    /\ \E q \in Catalogued : Rank(q) < Rank(Preferred) /\ Matched(q) = 1
    /\ result.provider # Preferred
    /\ Matched(result.provider) = 2

----------------------------------------------------------------------------
(* C30 *)

\* C30: whenever a provider is configured, getBestModelForTask returns a
\* configured provider together with that provider's configured default model.
C30_ReturnsConfiguredPair ==
    (BestModelReturned /\ Configured # {})
    => /\ result.provider \in Configured
       /\ result.model = providerConfigs[result.provider].modelName

----------------------------------------------------------------------------
(* C27 *)

\* C27: whenever a provider is configured, the default provider is a
\* configured one, whatever DEFAULT_LLM_PROVIDER holds.
C27_DefaultIsConfigured ==
    Configured # {} => defaultProvider \in Configured

----------------------------------------------------------------------------
(* C28 *)

\* a completion request ended in an error after its provider was found
\* configured, with fallback disabled
FailedWithoutFallback ==
    /\ pc = "done"
    /\ body.route = "completion"
    /\ result.status = 500
    /\ ~ env.ENABLE_LLM_FALLBACK
    /\ frame.selectedProvider \in Configured

\* C28: with fallback disabled no request has more than one adapter
\* invoked, and a failing one invoked exactly the adapter of the resolved
\* provider and surfaces that adapter's error.
C28_NoFallbackOneAdapter ==
    /\ (~ env.ENABLE_LLM_FALLBACK /\ body.route = "completion") => Len(calls) <= 1
    /\ FailedWithoutFallback
        => /\ Attempted = << frame.selectedProvider >>
           /\ calls[1].outcome = "rejected"
           /\ result.error = AdapterError(frame.selectedProvider)

\* the default provider failed for a request that names none, while other
\* providers are configured
C28_Witness ==
    /\ FailedWithoutFallback
    /\ body.provider = None
    /\ Cardinality(Configured) >= 3
    /\ Len(calls) = 1

----------------------------------------------------------------------------
(* C25 *)

----------------------------------------------------------------------------
(* C26 *)

\* C26: every adapter invoked for a request is given the request as the
\* first adapter was given it, and the request object stays as it was.
C26_RequestUnchangedByAdapters ==
    (body.route = "completion" /\ Len(calls) >= 1)
    => /\ \A i \in 1..Len(calls) : calls[i].request = calls[1].request
       /\ request = calls[1].request

----------------------------------------------------------------------------
(* C29 *)

\* the step in which the second event of a child process is handled
SecondEventStep == pendingEvent = "close" /\ pendingEvent' = "none"

----------------------------------------------------------------------------
(* C23 *)

\* C23: the registry holds exactly the identifiers of the local-model
\* processes in flight; it is empty when none is.
C23_RegistryIsInFlightSet ==
    localModelProcesses = LiveProcesses

\* the run of the request has closed while the concurrent request's process
\* is still in flight
C23_Witness ==
    /\ pc = "done"
    /\ \E i \in 1..Len(calls) : DirectRunSettled(calls[i])
    /\ peer = "spawned"
    /\ localModelProcesses = { peerId }

----------------------------------------------------------------------------
(* C24 *)

----------------------------------------------------------------------------
(* C22 *)

====
